---- MODULE Spec2Model ----
(***************************************************************************)
(* Model of lib/cli.js of book-source-cli: the cli() orchestration         *)
(* (loader, format check, source aggregation, parse, post-filters, theme,  *)
(* renderer dispatch, output sink) and the four renderers.                 *)
(*                                                                         *)
(* Strings are sequences of tokens.  In a path the tokens "/" and "." are  *)
(* the separator and the dot; every other token stands for a non-empty run *)
(* of ordinary characters.  In a format name every token is one letter.    *)
(***************************************************************************)
EXTENDS Integers, Sequences, FiniteSets, TLC

(***************************************************************************)
(* Bounds of the model.                                                    *)
(***************************************************************************)
\* longest `sources` list of a package descriptor
MaxSources == 2
\* longest post-filter list (package-declared or command-line)
MaxFilters == 1

(***************************************************************************)
(* Generic sequence helpers.                                               *)
(***************************************************************************)
SeqsUpTo(S, n) == UNION { [1..k -> S] : k \in 0..n }

Max(S) == CHOOSE x \in S : \A y \in S : y <= x

\* indices of s holding token t
IndicesOf(s, t) == { i \in 1..Len(s) : s[i] = t }

\* s without its first n tokens (String.prototype.slice(n))
Slice(s, n) == SubSeq(s, n + 1, Len(s))

(***************************************************************************)
(* Node's path module (posix flavour).                                     *)
(***************************************************************************)
\* path.isAbsolute
isAbsolute(p) == Len(p) > 0 /\ p[1] = "/"

\* p without trailing separators
RECURSIVE StripTrailingSlashes(_)
StripTrailingSlashes(p) ==
    IF Len(p) > 0 /\ p[Len(p)] = "/"
    THEN StripTrailingSlashes(SubSeq(p, 1, Len(p) - 1))
    ELSE p

\* last portion of a path: what follows the last separator, trailing
\* separators ignored
LastPart(p) ==
    LET q == StripTrailingSlashes(p)
        slashes == IndicesOf(q, "/")
    IN  IF slashes = {} THEN q ELSE Slice(q, Max(slashes))

\* path.extname: from the last dot of the last portion to its end; empty
\* when there is no dot, when the only dot is the portion's first character,
\* or when the portion is ".."
extname(p) ==
    LET b == LastPart(p)
        dots == IndicesOf(b, ".")
    IN  IF dots = {} THEN <<>>
        ELSE IF Max(dots) = 1 THEN <<>>
        ELSE IF b = <<".", ".">> THEN <<>>
        ELSE SubSeq(b, Max(dots), Len(b))

\* path.dirname
dirname(p) ==
    IF Len(p) = 0 THEN <<".">>
    ELSE
      LET \* separators, the first character excepted, with a non-separator
          \* character somewhere to their right
          cand == { i \in 2..Len(p) :
                      /\ p[i] = "/"
                      /\ \E j \in (i + 1)..Len(p) : p[j] # "/" }
      IN  IF cand = {} THEN (IF isAbsolute(p) THEN <<"/">> ELSE <<".">>)
          ELSE IF isAbsolute(p) /\ Max(cand) = 2 THEN <<"/", "/">>
          ELSE SubSeq(p, 1, Max(cand) - 1)

\* the segments of a path: the runs of tokens between separators
RECURSIVE Segments(_)
Segments(p) ==
    IF Len(p) = 0 THEN <<>>
    ELSE LET slashes == IndicesOf(p, "/")
         IN  IF slashes = {} THEN <<p>>
             ELSE LET i == CHOOSE k \in slashes : \A m \in slashes : k <= m
                  IN  <<SubSeq(p, 1, i - 1)>> \o Segments(Slice(p, i))

\* normalizeString: drops empty and "." segments, resolves ".." segments
RECURSIVE NormalizeSegments(_, _, _)
NormalizeSegments(segs, acc, abs) ==
    IF Len(segs) = 0 THEN acc
    ELSE LET s == Head(segs)
             rest == Tail(segs)
         IN  IF s = <<>> \/ s = <<".">> THEN NormalizeSegments(rest, acc, abs)
             ELSE IF s = <<".", ".">>
             THEN IF Len(acc) > 0 /\ acc[Len(acc)] # <<".", ".">>
                  THEN NormalizeSegments(rest, SubSeq(acc, 1, Len(acc) - 1), abs)
                  ELSE IF abs THEN NormalizeSegments(rest, acc, abs)
                  ELSE NormalizeSegments(rest, Append(acc, s), abs)
             ELSE NormalizeSegments(rest, Append(acc, s), abs)

RECURSIVE JoinSegments(_)
JoinSegments(segs) ==
    IF Len(segs) = 0 THEN <<>>
    ELSE IF Len(segs) = 1 THEN segs[1]
    ELSE segs[1] \o <<"/">> \o JoinSegments(Tail(segs))

\* path.normalize
normalize(p) ==
    IF Len(p) = 0 THEN <<".">>
    ELSE
      LET abs == isAbsolute(p)
          trailing == p[Len(p)] = "/"
          body == JoinSegments(NormalizeSegments(Segments(p), <<>>, abs))
      IN  IF Len(body) = 0
          THEN (IF abs THEN <<"/">> ELSE IF trailing THEN <<".", "/">> ELSE <<".">>)
          ELSE (IF abs THEN <<"/">> ELSE <<>>) \o body
                 \o (IF trailing THEN <<"/">> ELSE <<>>)

\* path.join of two paths
join(a, b) ==
    IF Len(a) = 0 /\ Len(b) = 0 THEN <<".">>
    ELSE IF Len(a) = 0 THEN normalize(b)
    ELSE IF Len(b) = 0 THEN normalize(a)
    ELSE normalize(a \o <<"/">> \o b)

(***************************************************************************)
(* JavaScript values.                                                      *)
(***************************************************************************)
UpperCase == <<"A", "B", "C", "D", "E", "F", "G", "H", "I", "J", "K", "L", "M",
               "N", "O", "P", "Q", "R", "S", "T", "U", "V", "W", "X", "Y", "Z">>
LowerCase == <<"a", "b", "c", "d", "e", "f", "g", "h", "i", "j", "k", "l", "m",
               "n", "o", "p", "q", "r", "s", "t", "u", "v", "w", "x", "y", "z">>

\* String.prototype.toLowerCase
toLowerCase(s) ==
    [ i \in 1..Len(s) |->
        IF \E k \in 1..Len(UpperCase) : UpperCase[k] = s[i]
        THEN LowerCase[CHOOSE k \in 1..Len(UpperCase) : UpperCase[k] = s[i]]
        ELSE s[i] ]

\* A theme value is one of: "absent" (undefined), "null", "str" (a non-empty
\* string), "objA", "objB" (two distinct mappings).
Truthy(v) == v \notin {"absent", "null"}
TypeofObject(v) == v \in {"null", "objA", "objB"}

\* Array.isArray and .length of a list-valued package key, held as
\* [kind |-> "absent" | "other" | "array", items |-> the list]
isArray(v) == v.kind = "array"
Absent == [kind |-> "absent", items |-> <<>>]
Other == [kind |-> "other", items |-> <<>>]
Array(items) == [kind |-> "array", items |-> items]

(***************************************************************************)
(* State of one run of cli().                                              *)
(***************************************************************************)
VARIABLES
    args,               \* the options record returned by cliManager.run()
    given,              \* history: the options record as parsed
    descriptor,         \* environment: what loading the descriptor yields
    package_,           \* the package record
    baseDir,            \* base directory of the run
    isPackage,
    rawContent,         \* accumulator of the aggregation loop
    idx,                \* number of `sources` entries already iterated
    structuredDocument, \* the parsed document
    postFilters,        \* the merged post-filter list
    theme,              \* the Theme instance handed to the renderer
    output,             \* the rendered string
    stdout,             \* what was written on standard output, write by write
    stderr,             \* what was reported on the error stream
    helpShown,          \* cliManager.displayHelp() was called
    outFile,            \* the destination file
    exitCode,           \* -1 while running
    reads,              \* history: the source reads, in order
    calls,              \* history: collaborators invoked, in order
    pc

vars == <<args, given, descriptor, package_, baseDir, isPackage, rawContent,
          idx, structuredDocument, postFilters, theme, output, stdout, stderr,
          helpShown, outFile, exitCode, reads, calls, pc>>

(***************************************************************************)
(* Inputs.                                                                 *)
(***************************************************************************)
\* process.cwd() + '/'
cwd == <<"/", "w", "/">>

\* the `source` argument: .bks, .kfg and .json documents named relatively
\* and absolutely, and names the loader refuses
ArgSources ==
    { <<"doc", ".", "bks">>,
      <<"/", "abs", "/", "doc", ".", "bks">>,
      <<"sub", "/", "pkg", ".", "kfg">>,
      <<"/", "abs", "/", "pkg", ".", "kfg">>,
      <<"pkg", ".", "json">>,
      <<"/", "abs", "/", "sub", "/", "pkg", ".", "json">>,
      <<"doc", ".", "BKS">>,
      <<"doc">>,
      <<".", "bks">> }

\* the --format argument
ArgFormats ==
    { <<"h", "t", "m", "l">>,
      <<"H", "t", "M", "L">>,
      <<"j", "s", "o", "n">>,
      <<"K", "F", "G">>,
      <<"i", "n", "s", "p", "e", "c", "t">>,
      <<"x", "m", "l">>,
      <<"X", "M", "L">> }

\* the --output argument; the empty string stands for an option not given
NoOutput == <<>>
ArgOutputs == { NoOutput, <<"out", ".", "html">> }

FilterNames == {"fa", "fb"}
FilterLists == SeqsUpTo(FilterNames, MaxFilters)

\* entries of a `sources` list: relative without extension, absolute,
\* relative through the parent directory with another extension
SourceEntries ==
    { <<"a">>,
      <<"/", "abs", "/", "b", ".", "bks">>,
      <<".", ".", "/", "c", ".", "txt">> }
SourceLists == SeqsUpTo(SourceEntries, MaxSources)

\* contents of a source file: empty or not
Contents == { <<>>, <<"x">> }

\* the css key of a package: absent, a path, or a mapping of paths ("" for
\* a key that is not set)
NoCss == [kind |-> "absent", standalone |-> "", core |-> "", code |-> ""]
CssValues ==
    { NoCss,
      [kind |-> "string", standalone |-> "", core |-> "core.css", code |-> ""],
      [kind |-> "object", standalone |-> "std.css", core |-> "",
       code |-> "missing.css"] }
ReadableCss == {"core.css", "std.css"}

PackageThemes == {"absent", "null", "str", "objB"}
DocumentThemes == {"absent", "null", "str", "objA"}

\* the record a variable holds before the code assigns it
NoPackage ==
    [kind |-> "unset", sources |-> Absent, postFilters |-> Absent,
     theme |-> "absent", css |-> NoCss, standalone |-> "unset"]
NoDocument == [parsed |-> FALSE, text |-> <<>>, theme |-> "absent", filters |-> <<>>]
NoTheme == [built |-> FALSE, from |-> "absent"]
NoFile == [written |-> FALSE, path |-> <<>>, content |-> <<>>]

ObjectPackage(sources, filters, th, css) ==
    [kind |-> "object", sources |-> sources, postFilters |-> filters,
     theme |-> th, css |-> css, standalone |-> "unset"]

\* what loading a descriptor can yield: a mapping, null, or a load failure.
\* The first family varies the `sources` key, the second one the rendering
\* parameters.
NullPackage == [NoPackage EXCEPT !.kind = "null"]
Malformed == [NoPackage EXCEPT !.kind = "malformed"]

SourcesDescriptors ==
    { ObjectPackage(s, Absent, "absent", NoCss) :
        s \in {Absent, Other} \cup { Array(l) : l \in SourceLists } }
    \cup {NullPackage, Malformed}

RenderingDescriptors ==
    { ObjectPackage(Array(<<<<"a">>>>), f, th, NoCss) :
        f \in {Absent, Other} \cup { Array(l) : l \in FilterLists },
        th \in PackageThemes }
    \cup
    { ObjectPackage(Array(<<<<"a">>>>), Absent, "absent", css) : css \in CssValues }

CliFilters == {Absent} \cup { Array(l) : l \in FilterLists }

\* Invocations: every source argument and format against every shape of
\* `sources`; and every combination of command-line post-filters and
\* fragment flag against every package post-filter list and theme, and
\* against every css value, for a standalone document and for a package.
LoaderOptions ==
    [ source : ArgSources, output : ArgOutputs, format : ArgFormats,
      postFilter : {Absent}, fragment : {FALSE} ]

RenderingOptions ==
    [ source : { <<"doc", ".", "bks">>, <<"sub", "/", "pkg", ".", "kfg">> },
      output : ArgOutputs,
      format : { <<"h", "t", "m", "l">>, <<"j", "s", "o", "n">> },
      postFilter : CliFilters, fragment : BOOLEAN ]

\* line 77
Extension(source) == Slice(extname(source), 1)

IsDescriptor(source) == Extension(source) \in {<<"kfg">>, <<"json">>}

Init ==
    /\ \/ /\ args \in LoaderOptions
          /\ descriptor \in IF IsDescriptor(args.source)
                            THEN SourcesDescriptors ELSE {NoPackage}
       \/ /\ args \in RenderingOptions
          /\ descriptor \in IF IsDescriptor(args.source)
                            THEN RenderingDescriptors ELSE {NoPackage}
    /\ given = args
    /\ package_ = NoPackage
    /\ baseDir = <<>>
    /\ isPackage = FALSE
    /\ rawContent = <<>>
    /\ idx = 0
    /\ structuredDocument = NoDocument
    /\ postFilters = <<>>
    /\ theme = NoTheme
    /\ output = <<>>
    /\ stdout = <<>>
    /\ stderr = <<>>
    /\ helpShown = FALSE
    /\ outFile = NoFile
    /\ exitCode = -1
    /\ reads = <<>>
    /\ calls = <<>>
    /\ pc = "load"

(***************************************************************************)
(* Process termination.                                                    *)
(***************************************************************************)
\* faulty variant: the process ends with status 0
Fatal_ExitZero(msg, arg, help) ==
    /\ stderr' = Append(stderr, [msg |-> msg, arg |-> arg])
    /\ helpShown' = help
    /\ exitCode' = 0
    /\ pc' = "exit"

\* console.error( message ) ; [ cliManager.displayHelp() ; ] process.exit( 1 )
Fatal(msg, arg, help) ==
    /\ stderr' = Append(stderr, [msg |-> msg, arg |-> arg])
    /\ helpShown' = help
    /\ exitCode' = 1
    /\ pc' = "exit"

\* an exception nothing catches: Node reports it on the error stream and the
\* process ends with status 1
Uncaught(what) ==
    /\ stderr' = Append(stderr, [msg |-> "Uncaught", arg |-> <<what>>])
    /\ helpShown' = helpShown
    /\ exitCode' = 1
    /\ pc' = "exit"

(***************************************************************************)
(* Package loader: the switch on the extension.                            *)
(***************************************************************************)
\* faulty variant: a relative descriptor path is not anchored at the working directory
LoaderBaseDir_NoCwd(source) == dirname(source) \o <<"/">>

\* lines 89-90 and 93-94
LoaderBaseDir(source) ==
    IF isAbsolute(source)
    THEN dirname(source) \o <<"/">>
    ELSE dirname(cwd \o source) \o <<"/">>

\* case 'bks'
LoadStandalone ==
    /\ pc = "load"
    /\ Extension(args.source) = <<"bks">>
    /\ baseDir' = cwd
    /\ package_' = ObjectPackage(Array(<<args.source>>), Absent, "absent", NoCss)
    /\ pc' = "format"
    /\ UNCHANGED <<args, given, descriptor, isPackage, rawContent, idx,
                   structuredDocument, postFilters, theme, output, stdout,
                   stderr, helpShown, outFile, exitCode, reads, calls>>

\* case 'kfg', case 'json': kungFig.load() or require() of the descriptor
LoadDescriptor ==
    /\ pc = "load"
    /\ Extension(args.source) \in {<<"kfg">>, <<"json">>}
    /\ isPackage' = TRUE
    /\ baseDir' = LoaderBaseDir(args.source)
    /\ IF descriptor.kind = "malformed"
       THEN /\ Uncaught("load")
            /\ UNCHANGED package_
       ELSE /\ package_' = descriptor
            /\ pc' = "format"
            /\ UNCHANGED <<stderr, helpShown, exitCode>>
    /\ UNCHANGED <<args, given, descriptor, rawContent, idx, structuredDocument,
                   postFilters, theme, output, stdout, outFile, reads, calls>>

\* default
LoadUnsupported ==
    /\ pc = "load"
    /\ Extension(args.source) \notin {<<"bks">>, <<"kfg">>, <<"json">>}
    /\ Fatal("CannotLoad", Extension(args.source), TRUE)
    /\ UNCHANGED <<args, given, descriptor, package_, baseDir, isPackage,
                   rawContent, idx, structuredDocument, postFilters, theme,
                   output, stdout, outFile, reads, calls>>

(***************************************************************************)
(* The renderer registry and the validations.                              *)
(***************************************************************************)
\* Object.keys( renderers )
availableRenderers ==
    << <<"h", "t", "m", "l">>, <<"j", "s", "o", "n">>, <<"k", "f", "g">>,
       <<"i", "n", "s", "p", "e", "c", "t">> >>

\* Array.prototype.includes
includes(list, x) == \E i \in 1..Len(list) : list[i] = x

\* faulty variant: the format is looked up as given
NormalizeFormat_AsGiven(format) == format

\* line 118
NormalizeFormat(format) == toLowerCase(format)

\* lines 117-124; assigning a property of null throws a TypeError
CheckFormat ==
    /\ pc = "format"
    /\ IF package_.kind = "null"
       THEN /\ Uncaught("TypeError")
            /\ UNCHANGED <<args, package_>>
       ELSE /\ package_' = [package_ EXCEPT
                              !.standalone = IF args.fragment THEN "no" ELSE "yes"]
            /\ args' = [args EXCEPT !.format = NormalizeFormat(@)]
            /\ IF ~ includes(availableRenderers, args'.format)
               THEN Fatal("UnsupportedFormat", args'.format, TRUE)
               ELSE /\ pc' = "sources"
                    /\ UNCHANGED <<stderr, helpShown, exitCode>>
    /\ UNCHANGED <<given, descriptor, baseDir, isPackage, rawContent, idx,
                   structuredDocument, postFilters, theme, output, stdout,
                   outFile, reads, calls>>

\* faulty variant: an empty list passes
HasSources_AnyArray(pkg) == isArray(pkg.sources)

\* line 127
HasSources(pkg) == isArray(pkg.sources) /\ Len(pkg.sources.items) # 0

\* lines 127-130
CheckSources ==
    /\ pc = "sources"
    /\ IF ~ HasSources(package_)
       THEN Fatal("NoSource", <<>>, FALSE)
       ELSE /\ pc' = "read"
            /\ UNCHANGED <<stderr, helpShown, exitCode>>
    /\ UNCHANGED <<args, given, descriptor, package_, baseDir, isPackage,
                   rawContent, idx, structuredDocument, postFilters, theme,
                   output, stdout, outFile, reads, calls>>

(***************************************************************************)
(* Source aggregator: one iteration of the for loop per step.              *)
(***************************************************************************)
\* lines 135-138
FullPath(base, sourcePath) ==
    LET joined == IF ~ isAbsolute(sourcePath) THEN join(base, sourcePath)
                  ELSE sourcePath
    IN  IF Len(extname(joined)) = 0 THEN joined \o <<".", "bks">> ELSE joined

\* lines 148-149: an empty string is falsy
Accumulate(raw, sourceContent) ==
    (IF Len(raw) # 0 THEN raw \o <<"\n">> ELSE raw) \o sourceContent

\* faulty variant: the read error names the resolved path
ReportedPath_Resolved(sourcePath, fullPath) == fullPath

\* line 144: the path the read error names
ReportedPath(sourcePath, fullPath) == sourcePath

\* lines 133-150; fs.readFileSync either returns the file's text or throws
ReadSource ==
    /\ pc = "read"
    /\ idx < Len(package_.sources.items)
    /\ LET sourcePath == package_.sources.items[idx + 1]
           fullPath == FullPath(baseDir, sourcePath)
       IN  \E ok \in BOOLEAN, sourceContent \in Contents :
             /\ ~ ok => sourceContent = <<>>
             /\ reads' = Append(reads, [entry |-> sourcePath, path |-> fullPath,
                                        ok |-> ok, content |-> sourceContent])
             /\ calls' = Append(calls, "read")
             /\ IF ok
                THEN /\ rawContent' = Accumulate(rawContent, sourceContent)
                     /\ idx' = idx + 1
                     /\ UNCHANGED <<stderr, helpShown, exitCode, pc>>
                ELSE /\ Fatal("ReadError", ReportedPath(sourcePath, fullPath), FALSE)
                     /\ UNCHANGED <<rawContent, idx>>
    /\ UNCHANGED <<args, given, descriptor, package_, baseDir, isPackage,
                   structuredDocument, postFilters, theme, output, stdout,
                   outFile>>

(***************************************************************************)
(* Parse, post-filters, theme.                                             *)
(***************************************************************************)
\* lines 152-154: bookSource.parse returns a document, which may carry a
\* theme, or throws
Parse ==
    /\ pc = "read"
    /\ idx = Len(package_.sources.items)
    /\ calls' = Append(calls, "parse")
    /\ \E ok \in BOOLEAN, th \in DocumentThemes :
         IF ok
         THEN /\ structuredDocument' = [parsed |-> TRUE, text |-> rawContent,
                                        theme |-> th, filters |-> <<>>]
              /\ pc' = "filter"
              /\ UNCHANGED <<stderr, helpShown, exitCode>>
         ELSE /\ th = "absent"
              /\ Uncaught("parse")
              /\ UNCHANGED structuredDocument
    /\ UNCHANGED <<args, given, descriptor, package_, baseDir, isPackage,
                   rawContent, idx, postFilters, theme, output, stdout, outFile,
                   reads>>

\* faulty variant: command-line filters first
MergePostFilters_CliFirst(packageFilters, cliFilters) ==
    (IF isArray(cliFilters) THEN cliFilters.items ELSE <<>>)
      \o (IF isArray(packageFilters) THEN packageFilters.items ELSE <<>>)

\* lines 159-163
MergePostFilters(packageFilters, cliFilters) ==
    (IF isArray(packageFilters) THEN packageFilters.items ELSE <<>>)
      \o (IF isArray(cliFilters) THEN cliFilters.items ELSE <<>>)

\* lines 159-167: textPostFilter applies the list to the document, or throws
PostFilter ==
    /\ pc = "filter"
    /\ postFilters' = MergePostFilters(package_.postFilters, args.postFilter)
    /\ IF Len(postFilters') # 0
       THEN /\ calls' = Append(calls, "filter")
            /\ \E ok \in BOOLEAN :
                 IF ok
                 THEN /\ structuredDocument' =
                           [structuredDocument EXCEPT !.filters = @ \o postFilters']
                      /\ pc' = "theme"
                      /\ UNCHANGED <<stderr, helpShown, exitCode>>
                 ELSE /\ Uncaught("textPostFilter")
                      /\ UNCHANGED structuredDocument
       ELSE /\ pc' = "theme"
            /\ UNCHANGED <<calls, structuredDocument, stderr, helpShown, exitCode>>
    /\ UNCHANGED <<args, given, descriptor, package_, baseDir, isPackage,
                   rawContent, idx, theme, output, stdout, outFile, reads>>

\* faulty variant: the embedded theme is taken for package input too
PackageTheme_Always(isPkg, documentTheme, packageTheme) ==
    IF Truthy(documentTheme) /\ TypeofObject(documentTheme)
    THEN documentTheme
    ELSE packageTheme

\* lines 170-174: the theme the package record holds afterwards
PackageTheme(isPkg, documentTheme, packageTheme) ==
    IF ~ isPkg /\ Truthy(documentTheme) /\ TypeofObject(documentTheme)
    THEN documentTheme
    ELSE packageTheme

\* lines 176-177: new bookSource.Theme() or new bookSource.Theme( theme )
NewTheme(packageTheme) ==
    IF ~ Truthy(packageTheme) \/ ~ TypeofObject(packageTheme)
    THEN [built |-> TRUE, from |-> "default"]
    ELSE [built |-> TRUE, from |-> packageTheme]

\* lines 170-177
ResolveTheme ==
    /\ pc = "theme"
    /\ package_' = [package_ EXCEPT
                      !.theme = PackageTheme(isPackage, structuredDocument.theme, @)]
    /\ theme' = NewTheme(package_'.theme)
    /\ pc' = "render"
    /\ UNCHANGED <<args, given, descriptor, baseDir, isPackage, rawContent, idx,
                   structuredDocument, postFilters, output, stdout, stderr,
                   helpShown, outFile, exitCode, reads, calls>>

(***************************************************************************)
(* Renderers.  A rendered string is a sequence of tokens naming what the   *)
(* collaborator was given.                                                 *)
(***************************************************************************)
\* the document as a collaborator serialises it
DocumentTokens(doc) == <<doc.theme>> \o doc.filters \o <<":">> \o doc.text

\* lines 207-208
NormalizeCss(css) ==
    IF css.kind = "absent"
    THEN [kind |-> "object", standalone |-> "", core |-> "", code |-> ""]
    ELSE IF css.kind = "string"
    THEN [kind |-> "object", standalone |-> "", core |-> css.core, code |-> ""]
    ELSE css

\* lines 211-221: a stylesheet named by the package is read, otherwise the
\* built-in one is taken
CssReadable(css) ==
    \A path \in {css.standalone, css.core, css.code} :
        path # "" => path \in ReadableCss

CssBlob(path, builtin) == IF path # "" THEN path ELSE builtin

\* lines 203-235
renderHtml(doc, th, pkg) ==
    LET css == NormalizeCss(pkg.css)
    IN  <<"html", pkg.standalone, th.from,
          CssBlob(css.standalone, "builtin-standalone"),
          CssBlob(css.core, "builtin-core"),
          CssBlob(css.code, "builtin-code")>> \o DocumentTokens(doc)

\* lines 240-242
renderJson(doc, th, pkg) == <<"json">> \o DocumentTokens(doc)

\* lines 247-249
renderKfg(doc, th, pkg) == <<"kfg">> \o DocumentTokens(doc)

\* lines 254-259
renderInspect(doc, th, pkg) == <<"inspect">> \o DocumentTokens(doc)

\* renderers[ format ]( structuredDocument , theme , package_ )
Dispatch(format, doc, th, pkg) ==
    CASE format = <<"h", "t", "m", "l">> -> renderHtml(doc, th, pkg)
      [] format = <<"j", "s", "o", "n">> -> renderJson(doc, th, pkg)
      [] format = <<"k", "f", "g">> -> renderKfg(doc, th, pkg)
      [] format = <<"i", "n", "s", "p", "e", "c", "t">> -> renderInspect(doc, th, pkg)

\* line 179: the renderer returns a string or throws (a stylesheet that
\* cannot be read, a failure of the collaborator)
Render ==
    /\ pc = "render"
    /\ calls' = Append(calls, "render")
    /\ LET html == args.format = <<"h", "t", "m", "l">>
       IN  /\ package_' = IF html THEN [package_ EXCEPT !.css = NormalizeCss(@)]
                          ELSE package_
           /\ \E ok \in BOOLEAN :
                IF ok /\ (html => CssReadable(package_'.css))
                THEN /\ output' = Dispatch(args.format, structuredDocument,
                                           theme, package_)
                     /\ pc' = "write"
                     /\ UNCHANGED <<stderr, helpShown, exitCode>>
                ELSE /\ Uncaught("render")
                     /\ UNCHANGED output
    /\ UNCHANGED <<args, given, descriptor, baseDir, isPackage, rawContent, idx,
                   structuredDocument, postFilters, theme, stdout, outFile,
                   reads>>

(***************************************************************************)
(* Output sink.                                                            *)
(***************************************************************************)
\* faulty variant: the string is written twice
ConsoleLog_Twice(out, string) ==
    Append(Append(out, string \o <<"\n">>), string \o <<"\n">>)

\* console.log( string ): the string and a line feed, in one write
ConsoleLog(out, string) == Append(out, string \o <<"\n">>)

\* faulty variant: the output option is ignored
ToStdout_Always(outputOption) == TRUE

\* line 181
ToStdout(outputOption) == Len(outputOption) = 0

\* lines 181-192: fs.writeFileSync either writes the whole file or throws
WriteOutput ==
    /\ pc = "write"
    /\ IF ToStdout(args.output)
       THEN /\ stdout' = ConsoleLog(stdout, output)
            /\ calls' = Append(calls, "stdout")
            /\ exitCode' = 0
            /\ pc' = "exit"
            /\ UNCHANGED <<outFile, stderr, helpShown>>
       ELSE /\ calls' = Append(calls, "write")
            /\ \E ok \in BOOLEAN :
                 IF ok
                 THEN /\ outFile' = [written |-> TRUE, path |-> args.output,
                                   content |-> output]
                      /\ exitCode' = 0
                      /\ pc' = "exit"
                      /\ UNCHANGED <<stderr, helpShown>>
                 ELSE /\ Fatal("WriteError", args.output, FALSE)
                      /\ UNCHANGED outFile
            /\ UNCHANGED stdout
    /\ UNCHANGED <<args, given, descriptor, package_, baseDir, isPackage,
                   rawContent, idx, structuredDocument, postFilters, theme,
                   output, reads>>

Next ==
    \/ LoadStandalone
    \/ LoadDescriptor
    \/ LoadUnsupported
    \/ CheckFormat
    \/ CheckSources
    \/ ReadSource
    \/ Parse
    \/ PostFilter
    \/ ResolveTheme
    \/ Render
    \/ WriteOutput

Spec == Init /\ [][Next]_vars

(***************************************************************************)
(* Properties.                                                             *)
(***************************************************************************)
Exited == pc = "exit"
Succeeded == exitCode = 0
LastError == stderr[Len(stderr)]
Count(list, x) == Cardinality(IndicesOf(list, x))
IsObject(v) == v \in {"objA", "objB"}
Registered(format) ==
    format \in { <<"h", "t", "m", "l">>, <<"j", "s", "o", "n">>,
                 <<"k", "f", "g">>, <<"i", "n", "s", "p", "e", "c", "t">> }
NoArtifact == stdout = <<>> /\ ~ outFile.written
OneArtifact ==
    \/ Len(stdout) = 1 /\ ~ outFile.written
    \/ stdout = <<>> /\ outFile.written
PipelineCompleted ==
    /\ Len(reads) = Len(package_.sources.items)
    /\ \A i \in 1..Len(reads) : reads[i].ok
    /\ structuredDocument.parsed
    /\ theme.built
    /\ Count(calls, "parse") = 1
    /\ Count(calls, "render") = 1

BadSources(pkg) ==
    \/ pkg.sources.kind \in {"absent", "other"}
    \/ pkg.sources.kind = "array" /\ pkg.sources.items = <<>>

NothingRead == reads = <<>> /\ calls = <<>> /\ ~ structuredDocument.parsed

\* C2 as stated: whenever the loaded package has no usable `sources`, the
\* run ends with status 1 and "No source specified", nothing read.
C2_Original ==
    (Exited /\ package_.kind = "object" /\ BadSources(package_))
      => /\ exitCode = 1
         /\ LastError.msg = "NoSource"
         /\ NothingRead

\* C2 amended: when the loaded package has no usable `sources` and the
\* format, lower-cased, is registered, nothing is ever read or invoked and
\* the run ends with status 1 and "No source specified".
C2_NoSource ==
    (package_.kind = "object" /\ BadSources(package_)
        /\ Registered(toLowerCase(given.format)))
      => /\ NothingRead
         /\ pc \in {"format", "sources", "exit"}
         /\ Exited => /\ exitCode = 1
                      /\ stderr = <<[msg |-> "NoSource", arg |-> <<>>]>>

\* an empty `sources` list rejected
C2_Witness ==
    /\ Exited
    /\ package_.kind = "object"
    /\ package_.sources = Array(<<>>)
    /\ LastError.msg = "NoSource"

\* the texts joined by single line feeds
RECURSIVE JoinLines(_)
JoinLines(texts) ==
    IF Len(texts) = 0 THEN <<>>
    ELSE IF Len(texts) = 1 THEN texts[1]
    ELSE texts[1] \o <<"\n">> \o JoinLines(Tail(texts))

\* C3: the raw content handed to the parser is the contents of the N
\* sources, in list order, joined by N-1 line feeds.
C3_JoinedByLineFeeds ==
    structuredDocument.parsed
      => structuredDocument.text =
           JoinLines([ i \in 1..Len(reads) |-> reads[i].content ])

Declared(v) == IF v.kind = "array" THEN v.items ELSE <<>>
FilterStagePassed == theme.built \/ pc = "theme"
FirstIndex(list, x) == CHOOSE i \in IndicesOf(list, x) : \A j \in IndicesOf(list, x) : i <= j

C5_ThemePrecedence ==
    theme.built =>
      /\ (~ isPackage /\ IsObject(structuredDocument.theme))
           => /\ package_.theme = structuredDocument.theme
              /\ theme.from = structuredDocument.theme
      /\ isPackage
           => /\ package_.theme = descriptor.theme
              /\ IsObject(descriptor.theme) => theme.from = descriptor.theme
      /\ ~ IsObject(package_.theme) => theme.from = "default"
      /\ IsObject(package_.theme) => theme.from = package_.theme

\* a package whose descriptor has a theme, parsed into a document that
\* embeds another one
C5_Witness ==
    /\ theme.built
    /\ isPackage
    /\ descriptor.theme = "objB"
    /\ structuredDocument.theme = "objA"

FormatChecked == package_.standalone # "unset"

C7_OneSink ==
    Succeeded =>
      IF given.output = NoOutput
      THEN /\ Len(stdout) = 1
           /\ SubSeq(stdout[1], 1, Len(output)) = output
           /\ ~ outFile.written
      ELSE /\ outFile = [written |-> TRUE, path |-> given.output,
                         content |-> output]
           /\ stdout = <<>>

\* a run with --output that wrote its file
C7_Witness ==
    /\ Succeeded
    /\ given.output # NoOutput
    /\ outFile.written

\* C8 as stated: without --output, standard output holds the rendered
\* string and nothing else.
C8_Original ==
    (Succeeded /\ given.output = NoOutput) => stdout = <<output>>

\* C8 amended: without --output, standard output receives one write: the
\* rendered string followed by one line feed.
C8_StdoutOnce ==
    (Succeeded /\ given.output = NoOutput) => stdout = << output \o <<"\n">> >>

\* a rendering printed by the inspect renderer
C8_Witness ==
    /\ Succeeded
    /\ given.output = NoOutput
    /\ args.format = <<"i", "n", "s", "p", "e", "c", "t">>
    /\ Len(stdout) = 1

\* the source names a file whose extension is exactly e
HasExtension(source, e) ==
    /\ Len(source) >= 3
    /\ source[Len(source)] = e
    /\ source[Len(source) - 1] = "."
    /\ source[Len(source) - 2] # "/"

\* the directory holding the file a path names, the path taken from the
\* working directory when it is relative
ContainingDirectory(source) ==
    LET full == IF source[1] = "/" THEN source ELSE cwd \o source
        segs == SelectSeq(Segments(full), LAMBDA x : x # <<>>)
    IN  <<"/">> \o JoinSegments(SubSeq(segs, 1, Len(segs) - 1)) \o <<"/">>

Loaded == package_.kind # "unset" \/ isPackage

\* C9: `bks` gives standalone mode, base directory the working directory and
\* sources = [source]; `kfg` and `json` give package mode with the
\* descriptor's directory as base directory; any other extension, letter
\* case included, ends the run with status 1, "Cannot load file with
\* extension" and the help; every relative `sources` entry is read under the
\* base directory.
C9_Loader ==
    /\ (Loaded /\ HasExtension(given.source, "bks")) =>
         /\ ~ isPackage
         /\ baseDir = cwd
         /\ package_.sources = Array(<<given.source>>)
    /\ (Loaded /\ (HasExtension(given.source, "kfg")
                     \/ HasExtension(given.source, "json"))) =>
         /\ isPackage
         /\ baseDir = ContainingDirectory(given.source)
         /\ package_.kind = "object" => package_.sources = descriptor.sources
    /\ (pc # "load" /\ \A e \in {"bks", "kfg", "json"} :
                          ~ HasExtension(given.source, e)) =>
         /\ Exited /\ exitCode = 1
         /\ stderr = <<[msg |-> "CannotLoad", arg |-> Extension(given.source)]>>
         /\ helpShown
         /\ ~ Loaded /\ NothingRead /\ NoArtifact
    /\ \A i \in 1..Len(reads) :
         LET entry == reads[i].entry
             under == normalize(baseDir \o entry)
         IN  IF entry[1] = "/"
             THEN reads[i].path = entry
             ELSE reads[i].path \in {under, under \o <<".", "bks">>}

\* a descriptor named relatively whose entry through the parent directory
\* was read
C9_Witness ==
    /\ isPackage
    /\ given.source = <<"sub", "/", "pkg", ".", "kfg">>
    /\ Len(reads) >= 1
    /\ reads[1].entry = <<".", ".", "/", "c", ".", "txt">>
    /\ reads[1].path = <<"/", "w", "/", "c", ".", "txt">>

\* C10: the sources are read one at a time in list order; a failed read is
\* the last one, it is reported with the entry as written in `sources`, the
\* run ends with status 1 and neither the parser, the post-filters, the
\* renderer nor the output sink is reached.
C10_FirstFailureEnds ==
    /\ Len(reads) <= Len(package_.sources.items)
    /\ Len(reads) = Count(calls, "read")
    /\ \A i \in 1..Len(reads) :
         /\ reads[i].entry = package_.sources.items[i]
         /\ i < Len(reads) => reads[i].ok
         /\ ~ reads[i].ok =>
              /\ Exited /\ exitCode = 1
              /\ LastError = [msg |-> "ReadError", arg |-> reads[i].entry]
              /\ \A k \in 1..Len(calls) : calls[k] = "read"
              /\ ~ structuredDocument.parsed
              /\ postFilters = <<>> /\ ~ theme.built /\ output = <<>>
              /\ NoArtifact

\* the first of two relative sources could not be read
C10_Witness ==
    /\ Exited
    /\ Len(package_.sources.items) = 2
    /\ Len(reads) = 1
    /\ ~ reads[1].ok
    /\ reads[1].entry # reads[1].path
====
